---- MODULE Spec2Model ----
(***************************************************************************)
(* tools/process_smc.py of xrmocap: one invocation of main(args) is a run   *)
(* of the reconstruction pipeline.  The model follows main() statement by   *)
(* statement (pc names the next statement group), against a file system     *)
(* that outlives the run, so that runs can follow each other.               *)
(***************************************************************************)
EXTENDS Integers, Sequences, FiniteSets, TLC

\* ---------------------------------------------------------------- bounds
MaxViews == 2       \* the capture holds 0..MaxViews cameras
MaxFrames == 2      \* each camera of the capture holds MaxFrames color frames
MaxJoints == 1      \* a Keypoints3D holds MaxJoints joints per frame
MaxClock == 1       \* the clock is read at seconds 0..MaxClock at most

\* ------------------------------------------------------------- constants
None == -1          \* Python's None where a view index is expected
Junk == -1          \* a file of a view directory that is not '*.png'
selected_kinect == 1
view_step == 3

\* ------------------------------------------------------- strings, names
Digits == <<"0", "1", "2", "3", "4", "5", "6", "7", "8", "9">>

RECURSIVE Dec(_)
Dec(n) == IF n < 10 THEN Digits[n + 1] ELSE Dec(n \div 10) \o Digits[(n % 10) + 1]

\* f'{n:02d}': decimal, zero-padded to a minimum width of two
Fmt02d(n) == IF n < 10 THEN "0" \o Dec(n) ELSE Dec(n)

RECURSIVE Flat(_)
Flat(s) == IF s = <<>> THEN "" ELSE Head(s) \o Flat(Tail(s))

\* position of the last occurrence of character c in s, 0 if there is none
LastPos(s, c) ==
    LET I == {i \in 1..Len(s) : s[i] = c}
    IN  IF I = {} THEN 0 ELSE CHOOSE i \in I : \A j \in I : j <= i

\* path.rsplit('/', 1)[-1]
FileName(path) == SubSeq(path, LastPos(path, "/") + 1, Len(path))

\* file_name.rsplit('.', 1)[0]
SmcNameChars(path) ==
    LET f == FileName(path)
        k == LastPos(f, ".")
    IN  IF k = 0 THEN f ELSE SubSeq(f, 1, k - 1)

SmcName(path) == Flat(SmcNameChars(path))

\* line 38, datetime.now().strftime('%Y.%m.%d_%H:%M:%S') read at second t of
\* 2022-01-01 00:00
TimeStr(t) == "2022.01.01_00:00:" \o Fmt02d(t)

LogPath(name, time_str) == name \o "_" \o time_str \o ".txt"

Keypoints2dPathOneName(name, index) == name \o "_keypoints2d_view00.npz"
Keypoints2dPath(name, index) ==
    name \o "_keypoints2d_" \o "view" \o Fmt02d(index) \o ".npz"

Keypoints3dPath(name) == name \o "_keypoints3d.npz"

SmplPath(name, smpl_type) == name \o "_" \o smpl_type \o "_data.npz"

Kp3dVideoPath(name) == name \o "_keypoints3d.mp4"
ProjectedVideoPath(name, view_idx) ==
    name \o "_projected" \o "_" \o Fmt02d(view_idx) \o ".mp4"
OverlayVideoPath(name, smpl_type) == name \o "_" \o smpl_type \o "_overlay.mp4"

\* isinstance(smpl_data, SMPLXData)
SmplTypeAlwaysSmpl(smpl_data) == "smpl"
SmplType(smpl_data) == IF smpl_data = "SMPLXData" THEN "smplx" ELSE "smpl"

\* the capture paths the runs are given
P_session07 ==
    <<"d", "/", "s", "e", "s", "s", "i", "o", "n", "0", "7", ".", "s", "m", "c">>
P_dotted == <<"a", ".", "b", "/", "c", ".", "v", "1", ".", "s", "m", "c">>
P_plain == <<"r", "a", "w">>
SmcPaths == {P_session07}
NamePaths == {P_session07, P_dotted, P_plain}

\* ------------------------------------------------------------ the state
VARIABLES
    \* the environment, fixed over a behaviour
    smc_path,        \* args.smc_path, a sequence of characters
    smc_kind,        \* what lies at smc_path: "file", "dir" or "missing"
    out_parent,      \* whether the parent of args.output_dir is a directory
    num_kinects,     \* smc_reader.num_kinects
    n_frames,        \* color frames per camera in the capture
    raw_world2cam,   \* view index -> whether the extrinsics the container
                     \* holds for the camera are world-to-camera
    kps3d_mask,      \* frame -> joint -> whether triangulation of the capture
                     \* yields a valid 3D joint
    reliable,        \* whether no external call raises in this behaviour
    failure_atomic,  \* whether an external call that raises has changed
                     \* nothing, as against raising after part or all of
                     \* its writes
    clock_end,       \* the last second at which the runs of this behaviour
                     \* read the clock
    \* the file system under args.output_dir
    out_dir,         \* whether args.output_dir is a directory
    out_files,       \* names of the files in args.output_dir
    written,         \* the names among them written by the current run
    frame_dir,       \* whether frame_temp_dir is a directory
    view_dirs,       \* view index -> [exists, files, fresh] of view_temp_dir
    now,             \* the second, counted from 2022-01-01 00:00:00, at which
                     \* datetime.now() was last read
    \* the run
    args,            \* [frame_file, visualize, disable_log_file], the command
                     \* line, the same for every run of a behaviour
    pc,              \* the next statement of main(), "idle" between runs
    failed_at,       \* the pc at which the run raised, "" if it has not
    dirs0,           \* view_dirs when the run started
    frame_dir0,      \* frame_dir when the run started
    baseline,        \* [phase, start, result]: in a comparison of two runs,
                     \* the file system both start from and the outcome of
                     \* the first; NoBaseline outside a comparison
    made_out_dir,    \* whether this run created args.output_dir
    kinect_index,    \* loop variable of line 70
    ret,             \* value returned by get_kinect_color, not yet bound
    sv_img_array,    \* view whose decoded frames sv_img_array refers to
    image_array,     \* view whose decoded frames image_array refers to
    mview_img_list,  \* sequence of per-view path lists
    keypoints2d_list,\* sequence of view indices (a Keypoints2D) or None
    keypoints3d,     \* [views, mask]: the views fused and the validity mask
    smpl_data,       \* "unset", "SMPLData" or "SMPLXData"
    index,           \* loop variable of line 99
    view_idx,        \* loop variable of line 141
    warnings,        \* views logger.warning was called for
    cam_param_list,  \* sequence of CameraParameters, empty before line 54
    cam_args,        \* the cam_param arguments the estimator was given
    fit_calls,       \* the arguments of the estimate_smpl calls of line 97
    drawn,           \* <<view, frame, joint>> drawn in a projection overlay
    events           \* the calls the run has made, in order, the call that
                     \* raised included

env == <<smc_path, smc_kind, out_parent, num_kinects, n_frames,
         raw_world2cam, kps3d_mask, reliable, failure_atomic,
         clock_end>>
fs == <<out_dir, out_files, written, frame_dir, view_dirs>>
locals == <<kinect_index, ret, sv_img_array, image_array, mview_img_list,
            keypoints2d_list, keypoints3d, smpl_data, index, view_idx,
            warnings>>
snap == <<dirs0, frame_dir0, baseline>>
calib == <<cam_param_list, cam_args>>
fitvis == <<fit_calls, drawn>>
vars == <<env, fs, now, args, pc, failed_at, snap, made_out_dir, locals,
          calib, fitvis, events>>

Views == 0..(MaxViews - 1)
FrameFiles == {"none", "temp", "keep"}
ArgsSet == [frame_file : FrameFiles, visualize : BOOLEAN,
            disable_log_file : BOOLEAN]

NoDir == [exists |-> FALSE, files |-> {}, fresh |-> {}]
NoBaseline == [phase |-> "single", start |-> <<>>, result |-> <<>>]
ForeignDir == [exists |-> TRUE, files |-> {Junk}, fresh |-> {}]
EmptyDir == [exists |-> TRUE, files |-> {}, fresh |-> {}]

Ev(op, view) == [op |-> op, view |-> view]

Joints == 1..MaxJoints

\* a Keypoints3D not yet computed
NoKeypoints3d == [views |-> {}, mask |-> <<>>]

\* ------------------------------------------ xrprimer.utils.path_utils
\* check_path_existence(path, 'dir') of a directory whose parent exists
DirExistence(d) ==
    IF ~d.exists THEN "DirectoryNotExist"
    ELSE IF d.files = {} THEN "DirectoryExistEmpty"
    ELSE "DirectoryExistNotEmpty"

\* check_path_existence(args.output_dir, 'dir')
OutputExistence ==
    IF ~out_parent THEN "MissingParent"
    ELSE IF ~out_dir THEN "DirectoryNotExist"
    ELSE IF out_files = {} /\ ~frame_dir THEN "DirectoryExistEmpty"
    ELSE "DirectoryExistNotEmpty"

\* check_path_existence(args.smc_path, 'file')
InputExistence ==
    IF smc_kind = "file" THEN "FileExist" ELSE "FileNotExist"

\* ---------------------------------------------------------------- Init
InitFs ==
    /\ now = 0
    /\ written = {}
    /\ out_files = {}
    /\ \/ out_parent = FALSE /\ out_dir = FALSE /\ frame_dir = FALSE
          /\ view_dirs = [v \in Views |-> NoDir]
       \/ out_parent = TRUE /\ out_dir \in BOOLEAN /\ frame_dir = FALSE
          /\ view_dirs = [v \in Views |-> NoDir]
       \/ out_parent = TRUE /\ out_dir = TRUE /\ frame_dir = TRUE
          /\ view_dirs = [v \in Views |-> IF v = 0 THEN ForeignDir
                                         ELSE IF v = 1 THEN EmptyDir
                                         ELSE NoDir]

InitProcess ==
    /\ args \in ArgsSet
    /\ pc = "idle"
    /\ failed_at = ""
    /\ dirs0 = view_dirs
    /\ frame_dir0 = frame_dir
    /\ cam_param_list = <<>>
    /\ cam_args = <<>>
    /\ fit_calls = <<>>
    /\ drawn = {}
    /\ made_out_dir = FALSE
    /\ kinect_index = 0
    /\ ret = None
    /\ sv_img_array = None
    /\ image_array = None
    /\ mview_img_list = <<>>
    /\ keypoints2d_list = <<>>
    /\ keypoints3d = NoKeypoints3d
    /\ smpl_data = "unset"
    /\ index = 0
    /\ view_idx = 0
    /\ warnings = {}
    /\ events = <<>>

\* a behaviour of runs that are not compared with one another
InitRun ==
    /\ InitProcess
    /\ baseline = NoBaseline

\* a capture whose extrinsics are stored camera-to-world and whose joints
\* are all reconstructed in every frame
InitGeometry ==
    /\ raw_world2cam = [v \in Views |-> FALSE]
    /\ kps3d_mask = [f \in 1..MaxFrames |-> [j \in Joints |-> TRUE]]

\* one capture path, any kind of input and output location, any command
\* line; the runs of a behaviour read the clock within one second
Init ==
    /\ smc_path \in SmcPaths
    /\ smc_kind \in {"file", "dir", "missing"}
    /\ num_kinects \in 0..MaxViews
    /\ n_frames = MaxFrames
    /\ reliable = FALSE
    /\ failure_atomic = TRUE
    /\ clock_end = 0
    /\ InitGeometry
    /\ InitFs
    /\ InitRun

\* ------------------------------------------------------------- actions
\* an exception leaves main(): the run is over, the file system stays
Raise ==
    /\ failed_at' = pc
    /\ pc' = "failed"

\* lines 239-241: a process is started on the command line of this
\* behaviour (again, when an earlier run has ended) and calls main(args)
StartRun ==
    /\ pc \in {"idle", "done", "failed"}
    /\ pc' = "check_output"
    /\ failed_at' = ""
    /\ written' = {}
    /\ view_dirs' = [v \in Views |-> [view_dirs[v] EXCEPT !.fresh = {}]]
    /\ dirs0' = view_dirs'
    /\ frame_dir0' = frame_dir
    /\ made_out_dir' = FALSE
    /\ kinect_index' = 0
    /\ ret' = None
    /\ sv_img_array' = None
    /\ image_array' = None
    /\ mview_img_list' = <<>>
    /\ keypoints2d_list' = <<>>
    /\ keypoints3d' = NoKeypoints3d
    /\ smpl_data' = "unset"
    /\ index' = 0
    /\ view_idx' = 0
    /\ warnings' = {}
    /\ events' = <<>>
    /\ cam_param_list' = <<>>
    /\ cam_args' = <<>>
    /\ fit_calls' = <<>>
    /\ drawn' = {}
    /\ UNCHANGED <<env, args, out_dir, out_files, frame_dir, now, baseline>>

\* lines 30-34
CheckOutput ==
    /\ pc = "check_output"
    /\ IF OutputExistence = "MissingParent"
       THEN Raise /\ UNCHANGED <<out_dir, made_out_dir>>
       ELSE \/ /\ out_dir' = TRUE
               /\ made_out_dir' = (OutputExistence = "DirectoryNotExist")
               /\ pc' = "setup_log"
               /\ UNCHANGED failed_at
            \/ \* check_path_existence of line 30 or os.mkdir of line 34
               \* raises: no directory is made
               /\ ~reliable
               /\ Raise
               /\ UNCHANGED <<out_dir, made_out_dir>>
    /\ UNCHANGED <<env, out_files, written, frame_dir, view_dirs, args,
                   calib, fitvis, snap, now, locals, events>>

\* lines 35-42: the clock is read, once, when a log file is asked for, and
\* setup_logger opens the log file of that second; without a log file the
\* clock is not read
SetupLogger ==
    /\ pc = "setup_log"
    /\ IF ~args.disable_log_file
       THEN \E t \in now..clock_end :
                LET time_str == TimeStr(t)
                    log_path == LogPath(SmcName(smc_path), time_str)
                IN  /\ now' = t
                    /\ \/ /\ out_files' = out_files \cup {log_path}
                          /\ written' = written \cup {log_path}
                          /\ pc' = "check_input"
                          /\ UNCHANGED failed_at
                       \/ \* setup_logger of line 40 raises before it has
                          \* opened the log file
                          /\ ~reliable
                          /\ Raise
                          /\ UNCHANGED <<out_files, written>>
                       \/ \* setup_logger of line 40 raises after it has
                          \* opened the log file
                          /\ ~reliable /\ ~failure_atomic
                          /\ out_files' = out_files \cup {log_path}
                          /\ written' = written \cup {log_path}
                          /\ Raise
       ELSE /\ UNCHANGED <<out_files, written, now>>
            /\ \/ pc' = "check_input" /\ UNCHANGED failed_at
               \/ \* setup_logger of line 42 raises
                  ~reliable /\ Raise
    /\ UNCHANGED <<env, out_dir, frame_dir, view_dirs, args, calib, fitvis,
                   snap, made_out_dir, locals, events>>

\* lines 44-46
CheckInput ==
    /\ pc = "check_input"
    /\ \/ IF InputExistence # "FileExist"
          THEN Raise
          ELSE pc' = "load_smc" /\ UNCHANGED failed_at
       \/ \* check_path_existence of line 44 raises
          ~reliable /\ Raise
    /\ UNCHANGED <<env, fs, args, calib, fitvis, snap, now, made_out_dir, locals,
                   events>>

\* line 48
LoadSmc ==
    /\ pc = "load_smc"
    /\ events' = Append(events, Ev("SMCReader", None))
    /\ pc' = "build"
    /\ UNCHANGED <<env, fs, args, calib, fitvis, failed_at, snap, now,
                   made_out_dir, locals>>

\* lines 50-52
BuildEstimator ==
    /\ pc = "build"
    /\ \/ /\ events' = Append(events, Ev("build_estimator", None))
          /\ pc' = "load_cam"
          /\ UNCHANGED failed_at
       \/ \* mmcv.Config.fromfile of line 50 raises: build_estimator has
          \* not been called
          /\ ~reliable
          /\ Raise
          /\ UNCHANGED events
       \/ \* build_estimator of line 52 raises
          /\ ~reliable
          /\ events' = Append(events, Ev("build_estimator", None))
          /\ Raise
    /\ UNCHANGED <<env, fs, args, calib, fitvis, snap, now, made_out_dir,
                   locals>>

\* get_all_color_kinect_parameter_from_smc signals a configuration error for
\* a container that reports no camera
NoCameraNeverFails(n) == FALSE
NoCameraFails(n) == n = 0

\* a CameraParameter as the container holds it: its convention flag,
\* whether its rotation and translation are the inverse of the container's,
\* and how many times it has been changed in place
RawCamera(world2cam) ==
    [world2cam |-> world2cam, inverted |-> FALSE, mutations |-> 0]

\* CameraParameter.inverse_extrinsic(): inverts rotation and translation in
\* place and flips the convention flag
InverseExtrinsicKeepsFlag(cam) ==
    [cam EXCEPT !.inverted = ~@, !.mutations = @ + 1]
InverseExtrinsic(cam) ==
    [world2cam |-> ~cam.world2cam, inverted |-> ~cam.inverted,
     mutations |-> cam.mutations + 1]

\* get_all_color_kinect_parameter_from_smc: one CameraParameter per camera,
\* its extrinsics oriented camera-to-world
NormalizedCamera(world2cam) ==
    IF world2cam THEN InverseExtrinsic(RawCamera(world2cam))
    ELSE RawCamera(world2cam)

CamParamList(n) == [i \in 1..n |-> NormalizedCamera(raw_world2cam[i - 1])]

\* lines 54-55
LoadCameras ==
    /\ pc = "load_cam"
    /\ events' = Append(events, Ev("get_all_color_kinect_parameter", None))
    /\ IF NoCameraFails(num_kinects)
       THEN Raise /\ UNCHANGED cam_param_list
       ELSE /\ cam_param_list' = CamParamList(num_kinects)
            /\ pc' = "prep_frames"
            /\ UNCHANGED failed_at
    /\ UNCHANGED <<env, fs, args, cam_args, fitvis, snap, now, made_out_dir,
                   locals>>

\* the head of the loop of line 70, entered with kinect_index = k
LoopHeadShort(k) == IF k + 1 < num_kinects THEN "loop" ELSE "estimate"
LoopHead(k) == IF k < num_kinects THEN "loop" ELSE "estimate"

\* line 57: whether the frames go through the file system
UsesFileSystemAlways(frame_file) == TRUE
UsesFileSystem(frame_file) == frame_file # "none"

\* lines 57-69: prepare_output_path(frame_temp_dir, 'dir', overwrite=True)
\* makes the directory when it is missing and leaves an existing one alone
PrepareFrames ==
    /\ pc = "prep_frames"
    /\ \/ /\ IF UsesFileSystem(args.frame_file)
             THEN /\ frame_dir' = TRUE
                  /\ mview_img_list' = <<>>
                  /\ events' = Append(events, Ev("prepare_output_path", None))
                  /\ UNCHANGED keypoints2d_list
             ELSE /\ keypoints2d_list' = <<>>
                  /\ UNCHANGED <<frame_dir, mview_img_list, events>>
          /\ kinect_index' = 0
          /\ pc' = LoopHead(0)
          /\ UNCHANGED failed_at
       \/ \* prepare_output_path raises after it has made the directory
          /\ ~reliable /\ ~failure_atomic
          /\ UsesFileSystem(args.frame_file)
          /\ frame_dir' = TRUE
          /\ events' = Append(events, Ev("prepare_output_path", None))
          /\ Raise
          /\ UNCHANGED <<mview_img_list, keypoints2d_list, kinect_index>>
    /\ UNCHANGED <<env, out_dir, out_files, written, view_dirs, args, calib,
                   fitvis, snap, now, made_out_dir, ret, sv_img_array,
                   image_array, keypoints3d, smpl_data, index, view_idx,
                   warnings>>

\* lines 82-83: whether the view's frames are extracted to view_temp_dir
NeedMaterializeIgnoreKeep(frame_file, temp_dir_exist) == TRUE
NeedMaterializeUnlessNonEmpty(frame_file, temp_dir_exist) ==
    ~(temp_dir_exist = "DirectoryExistNotEmpty")
NeedMaterialize(frame_file, temp_dir_exist) ==
    ~(frame_file = "keep" /\ temp_dir_exist = "DirectoryExistNotEmpty")

\* lines 71, 79-83: whether this iteration reads the view from the capture
ReadsCapture(frame_file, temp_dir_exist) ==
    frame_file = "none" \/ NeedMaterialize(frame_file, temp_dir_exist)

\* lines 72 and 84-85, right-hand side: smc_reader.get_kinect_color returns
\* the decoded frames of the view; the name sv_img_array is not yet rebound
ReadColor ==
    /\ pc = "loop"
    /\ ReadsCapture(args.frame_file, DirExistence(view_dirs[kinect_index]))
    /\ ret' = kinect_index
    /\ events' = Append(events, Ev("get_kinect_color", kinect_index))
    /\ pc' = IF args.frame_file = "none" THEN "est2d" ELSE "to_images"
    /\ UNCHANGED <<env, fs, args, calib, fitvis, failed_at, snap, now,
                   made_out_dir, kinect_index, sv_img_array, image_array,
                   mview_img_list, keypoints2d_list, keypoints3d, smpl_data,
                   index, view_idx, warnings>>

\* lines 79-83, condition false: the directory is taken as it is
ReuseViewDir ==
    /\ pc = "loop"
    /\ ~ReadsCapture(args.frame_file, DirExistence(view_dirs[kinect_index]))
    /\ pc' = "glob"
    /\ UNCHANGED <<env, fs, args, calib, fitvis, failed_at, snap, now,
                   made_out_dir, locals, events>>

\* what estimate_keypoints2d returns for one view: a one-entry list holding
\* the view's Keypoints2D, or None when nothing was detected
SvKeypoints2dList(view, detected) == <<IF detected THEN view ELSE None>>

\* the accumulation of line 77
AccumulatePrepend(list, sv_list) == sv_list \o list
Accumulate(list, sv_list) == list \o sv_list

\* lines 72-77: the frames are bound, converted and estimated
EstimateKeypoints2d ==
    /\ pc = "est2d"
    /\ sv_img_array' = ret
    /\ ret' = None
    /\ \/ /\ \E detected \in BOOLEAN :
                keypoints2d_list' =
                    Accumulate(keypoints2d_list,
                               SvKeypoints2dList(ret, detected))
          /\ events' = Append(events, Ev("estimate_keypoints2d", ret))
          /\ kinect_index' = kinect_index + 1
          /\ pc' = LoopHead(kinect_index + 1)
          /\ UNCHANGED failed_at
       \/ \* the conversion of lines 73-74 raises: the frames are bound to
          \* sv_img_array and the estimator has not been called
          /\ ~reliable
          /\ Raise
          /\ UNCHANGED <<keypoints2d_list, events, kinect_index>>
       \/ \* estimate_keypoints2d raises
          /\ ~reliable
          /\ events' = Append(events, Ev("estimate_keypoints2d", ret))
          /\ Raise
          /\ UNCHANGED <<keypoints2d_list, kinect_index>>
    /\ UNCHANGED <<env, fs, args, calib, fitvis, snap, now, made_out_dir,
                   image_array, mview_img_list, keypoints3d, smpl_data,
                   index, view_idx, warnings>>

\* array_to_images: the folder is made when missing, then frame i is
\* written as '%06d.png' % i, over a file of that name
FrameNames(n) == 0..(n - 1)

WriteFrames(d, n) ==
    [exists |-> TRUE, files |-> d.files \cup FrameNames(n),
     fresh |-> d.fresh \cup FrameNames(n)]

\* lines 84-87
ArrayToImages ==
    /\ pc = "to_images"
    /\ sv_img_array' = ret
    /\ ret' = None
    /\ \/ /\ view_dirs' = [view_dirs EXCEPT
                              ![kinect_index] = WriteFrames(@, n_frames)]
          /\ events' = Append(events, Ev("array_to_images", kinect_index))
          /\ pc' = "glob"
          /\ UNCHANGED failed_at
       \/ \* array_to_images raises: at once, or after it has prepared the
          \* folder and written the first k frames
          /\ ~reliable
          /\ \/ UNCHANGED view_dirs
             \/ /\ ~failure_atomic
                /\ \E k \in 0..n_frames :
                       view_dirs' = [view_dirs EXCEPT
                                        ![kinect_index] = WriteFrames(@, k)]
          /\ events' = Append(events, Ev("array_to_images", kinect_index))
          /\ Raise
       \/ \* the conversion of line 86 raises: the frames are bound to
          \* sv_img_array and array_to_images has not been called
          /\ ~reliable
          /\ Raise
          /\ UNCHANGED <<view_dirs, events>>
    /\ UNCHANGED <<env, out_dir, out_files, written, frame_dir, args, calib,
                   fitvis, snap, now, made_out_dir, kinect_index,
                   image_array, mview_img_list, keypoints2d_list, keypoints3d,
                   smpl_data, index, view_idx, warnings>>

RECURSIVE SortedSeq(_)
SortedSeq(S) ==
    IF S = {} THEN <<>>
    ELSE LET m == CHOOSE x \in S : \A y \in S : x <= y
         IN  <<m>> \o SortedSeq(S \ {m})

\* sorted(glob.glob(os.path.join(view_temp_dir, '*.png')))
SviewImgListReversed(view, d) ==
    LET pngs == SortedSeq({f \in d.files : f # Junk})
    IN  [i \in 1..Len(pngs) |->
            [view |-> view, file |-> pngs[Len(pngs) + 1 - i]]]
SviewImgList(view, d) ==
    LET pngs == SortedSeq({f \in d.files : f # Junk})
    IN  [i \in 1..Len(pngs) |-> [view |-> view, file |-> pngs[i]]]

\* lines 88-90
GlobView ==
    /\ pc = "glob"
    /\ mview_img_list' =
           Append(mview_img_list,
                  SviewImgList(kinect_index, view_dirs[kinect_index]))
    /\ events' = Append(events, Ev("glob", kinect_index))
    /\ kinect_index' = kinect_index + 1
    /\ pc' = LoopHead(kinect_index + 1)
    /\ UNCHANGED <<env, fs, args, calib, fitvis, failed_at, snap, now,
                   made_out_dir, ret, sv_img_array, image_array,
                   keypoints2d_list, keypoints3d, smpl_data, index, view_idx,
                   warnings>>

\* the head of the loop of line 99, entered with index = i over the list
WriteHead(i, list) == IF i < Len(list) THEN "write2d" ELSE "write3d"

\* what the estimator's run() returns as keypoints2d_list: one entry per
\* path list it was given, the view's Keypoints2D or None
RunKeypoints2dList(img_paths, detected) ==
    [i \in 1..Len(img_paths) |-> IF detected[i] THEN i - 1 ELSE None]

\* the Keypoints3D the triangulator returns: fused from the views that have
\* detections; a joint is valid in a frame when the capture lets it be
\* reconstructed there and at least two views contribute
Triangulate(list) ==
    LET views == {k - 1 : k \in {i \in 1..Len(list) : list[i] # None}}
    IN  [views |-> views,
         mask |-> [f \in 1..Len(kps3d_mask) |->
                      [j \in Joints |->
                          kps3d_mask[f][j] /\ Cardinality(views) >= 2]]]

\* lines 91-93: the one call of the on-disk strategies
RunEstimator ==
    /\ pc = "estimate"
    /\ args.frame_file # "none"
    /\ \E detected \in [1..Len(mview_img_list) -> BOOLEAN] :
          /\ keypoints2d_list' = RunKeypoints2dList(mview_img_list, detected)
          /\ pc' = WriteHead(0, keypoints2d_list')
    /\ keypoints3d' = Triangulate(keypoints2d_list')
    /\ cam_args' = Append(cam_args, cam_param_list)
    /\ \E sd \in {"SMPLData", "SMPLXData"} : smpl_data' = sd
    /\ events' = Append(events, Ev("run", None))
    /\ index' = 0
    /\ UNCHANGED <<env, fs, args, cam_param_list, fitvis, failed_at, snap, now,
                   made_out_dir, kinect_index, ret, sv_img_array,
                   image_array, mview_img_list, view_idx, warnings>>

\* lines 94-96
EstimateKeypoints3d ==
    /\ pc = "estimate"
    /\ args.frame_file = "none"
    /\ keypoints3d' = Triangulate(keypoints2d_list)
    /\ cam_args' = Append(cam_args, cam_param_list)
    /\ events' = Append(events, Ev("estimate_keypoints3d", None))
    /\ pc' = "fit"
    /\ UNCHANGED <<env, fs, args, cam_param_list, fitvis, failed_at, snap, now,
                   made_out_dir, kinect_index, ret, sv_img_array,
                   image_array, mview_img_list, keypoints2d_list, smpl_data,
                   index, view_idx, warnings>>

\* lines 97-98: the arguments of estimate_smpl
FitArgsWarmStart(kp3d) == [keypoints3d |-> kp3d, init_smpl_data |-> 0]
FitArgs(kp3d) == [keypoints3d |-> kp3d, init_smpl_data |-> None]

\* lines 97-98
EstimateSmpl ==
    /\ pc = "fit"
    /\ fit_calls' = Append(fit_calls, FitArgs(keypoints3d))
    /\ \E sd \in {"SMPLData", "SMPLXData"} : smpl_data' = sd
    /\ events' = Append(events, Ev("estimate_smpl", None))
    /\ index' = 0
    /\ pc' = WriteHead(0, keypoints2d_list)
    /\ UNCHANGED <<env, fs, args, calib, drawn, failed_at, snap, now,
                   made_out_dir, kinect_index, ret, sv_img_array,
                   image_array, mview_img_list, keypoints2d_list,
                   keypoints3d, view_idx, warnings>>

\* line 103: whether the entry is dumped
IsDetectedAlways(keypoints2d) == TRUE
IsDetected(keypoints2d) == keypoints2d # None

\* lines 99-107: one iteration, index counting from 0
DumpKeypoints2d ==
    /\ pc = "write2d"
    /\ LET keypoints2d == keypoints2d_list[index + 1]
           keypoints2d_path == Keypoints2dPath(SmcName(smc_path), index)
       IN  \/ /\ IF IsDetected(keypoints2d)
                 THEN /\ out_files' = out_files \cup {keypoints2d_path}
                      /\ written' = written \cup {keypoints2d_path}
                      /\ events' =
                             Append(events, Ev("dump_keypoints2d", index))
                      /\ UNCHANGED warnings
                 ELSE /\ warnings' = warnings \cup {index}
                      /\ events' = Append(events, Ev("warning", index))
                      /\ UNCHANGED <<out_files, written>>
              /\ index' = index + 1
              /\ pc' = WriteHead(index + 1, keypoints2d_list)
              /\ UNCHANGED failed_at
           \/ \* dump raises after it has made the file
              /\ ~reliable /\ ~failure_atomic
              /\ IsDetected(keypoints2d)
              /\ out_files' = out_files \cup {keypoints2d_path}
              /\ written' = written \cup {keypoints2d_path}
              /\ events' = Append(events, Ev("dump_keypoints2d", index))
              /\ Raise
              /\ UNCHANGED <<warnings, index>>
    /\ UNCHANGED <<env, out_dir, frame_dir, view_dirs, args, calib, fitvis,
                   snap, now, made_out_dir, kinect_index, ret,
                   sv_img_array, image_array, mview_img_list,
                   keypoints2d_list, keypoints3d, smpl_data, view_idx>>

\* lines 108-110
DumpKeypoints3d ==
    /\ pc = "write3d"
    /\ out_files' = out_files \cup {Keypoints3dPath(SmcName(smc_path))}
    /\ written' = written \cup {Keypoints3dPath(SmcName(smc_path))}
    /\ events' = Append(events, Ev("dump_keypoints3d", None))
    /\ \/ pc' = "write_smpl" /\ UNCHANGED failed_at
       \/ \* dump raises after it has made the file
          ~reliable /\ ~failure_atomic /\ Raise
    /\ UNCHANGED <<env, out_dir, frame_dir, view_dirs, args, calib, fitvis,
                   snap, now, made_out_dir, locals>>

\* lines 111-117
DumpSmpl ==
    /\ pc = "write_smpl"
    /\ LET smpl_path == SmplPath(SmcName(smc_path), SmplType(smpl_data))
       IN  /\ out_files' = out_files \cup {smpl_path}
           /\ written' = written \cup {smpl_path}
    /\ events' = Append(events, Ev("dump_smpl", None))
    /\ \/ pc' = "cleanup" /\ UNCHANGED failed_at
       \/ \* dump raises after it has made the file
          ~reliable /\ ~failure_atomic /\ Raise
    /\ UNCHANGED <<env, out_dir, frame_dir, view_dirs, args, calib, fitvis,
                   snap, now, made_out_dir, locals>>

\* line 118: whether the frame directory is removed
RemovesFramesAlways(frame_file) == TRUE
RemovesFramesNever(frame_file) == FALSE
RemovesFrames(frame_file) == frame_file = "temp"

\* a view's folder of which shutil.rmtree has left the files kept
PartlyRemoved(d, kept) ==
    [exists |-> d.exists, files |-> kept, fresh |-> d.fresh \cap kept]

\* line 122: whether the visualization of lines 123-195 is entered
VisualizesAlways(visualize) == TRUE
Visualizes(visualize) == visualize

\* lines 118-122: shutil.rmtree(frame_temp_dir), then the visualize test
Cleanup ==
    /\ pc = "cleanup"
    /\ \/ /\ IF RemovesFrames(args.frame_file)
             THEN /\ frame_dir' = FALSE
                  /\ view_dirs' = [v \in Views |-> NoDir]
                  /\ events' = Append(events, Ev("rmtree", None))
             ELSE UNCHANGED <<frame_dir, view_dirs, events>>
          /\ pc' = IF Visualizes(args.visualize) THEN "get_projector"
                   ELSE "done"
          /\ UNCHANGED failed_at
       \/ \* rmtree, which removes one entry after the other, raises: the
          \* folders of some views are gone, the folder of one more view has
          \* lost part of its files, the frame directory is still there
          /\ ~reliable /\ ~failure_atomic
          /\ RemovesFrames(args.frame_file)
          /\ \E gone \in SUBSET Views, part \in Views :
                \E kept \in SUBSET view_dirs[part].files :
                    view_dirs' =
                        [v \in Views |->
                            IF v \in gone THEN NoDir
                            ELSE IF v = part
                                 THEN PartlyRemoved(view_dirs[v], kept)
                            ELSE view_dirs[v]]
          /\ events' = Append(events, Ev("rmtree", None))
          /\ Raise
          /\ UNCHANGED frame_dir
    /\ UNCHANGED <<env, out_dir, out_files, written, args, calib, fitvis,
                   snap, now, made_out_dir, locals>>

\* lines 123-124
GetProjector ==
    /\ pc = "get_projector"
    /\ events' = Append(events, Ev("get_projector", None))
    /\ pc' = "vis_kp3d"
    /\ UNCHANGED <<env, fs, args, calib, fitvis, failed_at, snap, now,
                   made_out_dir, locals>>

\* the head of the loop of line 141, entered with view_idx = v over n views
ProjHead(v, n_view) == IF v < n_view THEN "vis_proj" ELSE "vis_smpl"

\* lines 125-140: the 3D video, then the projection into every camera
VisualizeKp3d ==
    /\ pc = "vis_kp3d"
    /\ out_files' = out_files \cup {Kp3dVideoPath(SmcName(smc_path))}
    /\ written' = written \cup {Kp3dVideoPath(SmcName(smc_path))}
    /\ \/ /\ events' = events \o <<Ev("visualize_kp3d", None),
                                   Ev("project", None)>>
          /\ view_idx' = 0
          /\ pc' = ProjHead(0, num_kinects)
          /\ UNCHANGED failed_at
       \/ \* visualize_kp3d raises after it has made the video, or
          \* get_keypoints, get_mask or len of lines 134-137 raises: the 3D
          \* video has been written, project has not been called
          /\ ~reliable
          /\ events' = Append(events, Ev("visualize_kp3d", None))
          /\ Raise
          /\ UNCHANGED view_idx
       \/ \* projector.project raises: the 3D video has been written
          /\ ~reliable
          /\ events' = events \o <<Ev("visualize_kp3d", None),
                                   Ev("project", None)>>
          /\ Raise
          /\ UNCHANGED view_idx
    /\ UNCHANGED <<env, out_dir, frame_dir, view_dirs, args, calib, fitvis,
                   snap, now, made_out_dir, kinect_index, ret, sv_img_array,
                   image_array, mview_img_list, keypoints2d_list, keypoints3d,
                   smpl_data, index, warnings>>

\* lines 133 and 151: the mask handed to the visualizers is
\* keypoints3d.get_mask()[0, 0, ...], one entry per joint
VisMask(kp3d) == kp3d.mask[1]

\* visualize_kp2d with a mask of one entry per joint: in each of the n frames
\* it draws the joints the mask marks and no other
DrawnJoints(view, mask, n) ==
    {<<view, f, j>> : f \in 1..n, j \in {k \in Joints : mask[k]}}

\* lines 141-153: one iteration of range(0, n_view, 3)
VisualizeProjection ==
    /\ pc = "vis_proj"
    /\ image_array' = view_idx
    /\ LET path == ProjectedVideoPath(SmcName(smc_path), view_idx)
           read == Ev("get_kinect_color", view_idx)
           draw == Ev("visualize_kp2d", view_idx)
           overlay == DrawnJoints(view_idx, VisMask(keypoints3d), n_frames)
       IN  \/ /\ events' = events \o <<read, draw>>
              /\ drawn' = drawn \cup overlay
              /\ out_files' = out_files \cup {path}
              /\ written' = written \cup {path}
              /\ view_idx' = view_idx + view_step
              /\ pc' = ProjHead(view_idx + view_step, num_kinects)
              /\ UNCHANGED failed_at
           \/ \* the conversion of line 144, or get_convention or get_mask
              \* of lines 150-151, raises: the view has been read and bound,
              \* visualize_kp2d has not been called
              /\ ~reliable
              /\ events' = Append(events, read)
              /\ Raise
              /\ UNCHANGED <<drawn, out_files, written, view_idx>>
           \/ \* visualize_kp2d raises at once
              /\ ~reliable
              /\ events' = events \o <<read, draw>>
              /\ Raise
              /\ UNCHANGED <<drawn, out_files, written, view_idx>>
           \/ \* visualize_kp2d raises after it has made the video
              /\ ~reliable /\ ~failure_atomic
              /\ events' = events \o <<read, draw>>
              /\ drawn' = drawn \cup overlay
              /\ out_files' = out_files \cup {path}
              /\ written' = written \cup {path}
              /\ Raise
              /\ UNCHANGED view_idx
    /\ UNCHANGED <<env, out_dir, frame_dir, view_dirs, args, calib,
                   fit_calls, snap, now, made_out_dir, kinect_index, ret,
                   sv_img_array, mview_img_list, keypoints2d_list,
                   keypoints3d, smpl_data, index, warnings>>

\* line 177: whether the selected camera's extrinsics are inverted
OverlayInvertsAlways(cam) == TRUE
OverlayInverts(cam) == cam.world2cam

\* lines 154-195: cam_param_list[selected_kinect] raises IndexError when the
\* capture has no such camera
VisualizeSmpl ==
    /\ pc = "vis_smpl"
    /\ LET path == OverlayVideoPath(SmcName(smc_path), SmplType(smpl_data))
           pick == Ev("cam_param_list", selected_kinect)
           read == Ev("get_kinect_color", selected_kinect)
           draw == Ev("visualize_smpl_calibration", None)
           oriented ==
               [cam_param_list EXCEPT ![selected_kinect + 1] =
                    IF OverlayInverts(@) THEN InverseExtrinsic(@) ELSE @]
       IN  IF selected_kinect >= num_kinects
           THEN /\ Raise
                /\ events' = Append(events, pick)
                /\ UNCHANGED <<out_files, written, image_array,
                               cam_param_list>>
           ELSE \/ /\ cam_param_list' = oriented
                   /\ image_array' = selected_kinect
                   /\ out_files' = out_files \cup {path}
                   /\ written' = written \cup {path}
                   /\ events' = events \o <<pick, read, draw>>
                   /\ pc' = "done"
                   /\ UNCHANGED failed_at
                \/ \* inverse_extrinsic raises: the camera is as it was
                   /\ ~reliable
                   /\ OverlayInverts(cam_param_list[selected_kinect + 1])
                   /\ events' = Append(events, pick)
                   /\ Raise
                   /\ UNCHANGED <<out_files, written, image_array,
                                  cam_param_list>>
                \/ \* get_kinect_color raises: the camera has been selected
                   /\ ~reliable
                   /\ cam_param_list' = oriented
                   /\ events' = events \o <<pick, read>>
                   /\ Raise
                   /\ UNCHANGED <<out_files, written, image_array>>
                \/ \* the conversion of line 181, or an argument of lines
                   \* 182-192, raises: the view is bound,
                   \* visualize_smpl_calibration has not been called
                   /\ ~reliable
                   /\ cam_param_list' = oriented
                   /\ image_array' = selected_kinect
                   /\ events' = events \o <<pick, read>>
                   /\ Raise
                   /\ UNCHANGED <<out_files, written>>
                \/ \* visualize_smpl_calibration raises at once
                   /\ ~reliable
                   /\ cam_param_list' = oriented
                   /\ image_array' = selected_kinect
                   /\ events' = events \o <<pick, read, draw>>
                   /\ Raise
                   /\ UNCHANGED <<out_files, written>>
                \/ \* visualize_smpl_calibration raises after it has made
                   \* the video
                   /\ ~reliable /\ ~failure_atomic
                   /\ cam_param_list' = oriented
                   /\ image_array' = selected_kinect
                   /\ out_files' = out_files \cup {path}
                   /\ written' = written \cup {path}
                   /\ events' = events \o <<pick, read, draw>>
                   /\ Raise
    /\ UNCHANGED <<env, out_dir, frame_dir, view_dirs, args, cam_args,
                   fitvis, snap, now, made_out_dir, kinect_index, ret,
                   sv_img_array, mview_img_list, keypoints2d_list,
                   keypoints3d, smpl_data, index, view_idx, warnings>>

\* the first of the calls of the statements at pc that the history records;
\* the statements of lines 30-46 and 50-52 are not among them, their failures
\* are branches of their actions
FirstRecordedCall ==
    CASE pc = "load_smc" -> Ev("SMCReader", None)
      [] pc = "load_cam" -> Ev("get_all_color_kinect_parameter", None)
      [] pc = "prep_frames" -> Ev("prepare_output_path", None)
      [] pc = "loop" -> Ev("get_kinect_color", kinect_index)
      [] pc = "glob" -> Ev("glob", kinect_index)
      [] pc = "estimate" ->
             Ev(IF args.frame_file # "none" THEN "run"
                ELSE "estimate_keypoints3d", None)
      [] pc = "fit" -> Ev("estimate_smpl", None)
      [] pc = "write2d" ->
             Ev(IF IsDetected(keypoints2d_list[index + 1])
                THEN "dump_keypoints2d" ELSE "warning", index)
      [] pc = "write3d" -> Ev("dump_keypoints3d", None)
      [] pc = "write_smpl" -> Ev("dump_smpl", None)
      [] pc = "cleanup" -> Ev("rmtree", None)
      [] pc = "get_projector" -> Ev("get_projector", None)
      [] pc = "vis_kp3d" -> Ev("visualize_kp3d", None)
      [] pc = "vis_proj" -> Ev("get_kinect_color", view_idx)

\* the statements at pc reach the call of FirstRecordedCall before they
\* have changed anything, and it can raise
CanRaise ==
    /\ ~reliable
    /\ pc \in {"load_smc", "load_cam", "prep_frames", "loop", "glob",
               "estimate", "fit", "write2d", "write3d", "write_smpl",
               "cleanup", "get_projector", "vis_kp3d", "vis_proj"}
    /\ pc = "prep_frames" => args.frame_file # "none"
    /\ pc = "loop" =>
           ReadsCapture(args.frame_file, DirExistence(view_dirs[kinect_index]))
    /\ pc = "cleanup" => RemovesFrames(args.frame_file)

\* the statements at pc make, before the call of FirstRecordedCall, a call
\* that the history does not record and that can raise: check_path_existence
\* of line 81; get_keypoints, get_convention and get_mask of lines 128-132.
\* os.path.join, isinstance, dict and the string methods, given values of
\* their own types, are taken not to raise
UnrecordedFirst ==
    /\ ~reliable
    /\ \/ pc = "loop" /\ args.frame_file # "none"
       \/ pc = "vis_kp3d"

\* a call of the statements at pc raises before the statements have changed
\* anything and the run ends: the first recorded call, which has then been
\* made, with its arguments, or an unrecorded call ahead of it; a call that
\* raises after it has written, and a later call of the same statements that
\* raises, are branches of the action of these statements
ExternalFailure ==
    /\ Raise
    /\ \/ /\ CanRaise
          /\ events' = Append(events, FirstRecordedCall)
          /\ cam_args' = IF pc = "estimate"
                         THEN Append(cam_args, cam_param_list)
                         ELSE cam_args
          /\ fit_calls' = IF pc = "fit"
                          THEN Append(fit_calls, FitArgs(keypoints3d))
                          ELSE fit_calls
       \/ /\ UnrecordedFirst
          /\ UNCHANGED <<events, cam_args, fit_calls>>
    /\ UNCHANGED <<env, fs, args, cam_param_list, drawn, snap, now,
                   made_out_dir, locals>>

Next ==
    \/ StartRun
    \/ CheckOutput
    \/ SetupLogger
    \/ CheckInput
    \/ ExternalFailure
    \/ LoadSmc
    \/ BuildEstimator
    \/ LoadCameras
    \/ PrepareFrames
    \/ ReadColor
    \/ ReuseViewDir
    \/ EstimateKeypoints2d
    \/ ArrayToImages
    \/ GlobView
    \/ RunEstimator
    \/ EstimateKeypoints3d
    \/ EstimateSmpl
    \/ DumpKeypoints2d
    \/ DumpKeypoints3d
    \/ DumpSmpl
    \/ Cleanup
    \/ GetProjector
    \/ VisualizeKp3d
    \/ VisualizeProjection
    \/ VisualizeSmpl

Spec == Init /\ [][Next]_vars

\* runs over captures of several path shapes, into a fresh output directory
InitNames ==
    /\ smc_path \in NamePaths
    /\ smc_kind = "file"
    /\ num_kinects = MaxViews
    /\ n_frames = MaxFrames
    /\ reliable = FALSE
    /\ failure_atomic = TRUE
    /\ clock_end = 0
    /\ InitGeometry
    /\ out_parent = TRUE
    /\ out_dir = FALSE
    /\ out_files = {}
    /\ now = 0
    /\ written = {}
    /\ frame_dir = FALSE
    /\ view_dirs = [v \in Views |-> NoDir]
    /\ InitRun
    /\ args.visualize
    /\ ~args.disable_log_file

SpecNames == InitNames /\ [][Next]_vars

\* runs with visualization over captures whose cameras are stored in either
\* convention, into a fresh output directory
InitCams ==
    /\ smc_path \in SmcPaths
    /\ smc_kind = "file"
    /\ num_kinects = MaxViews
    /\ n_frames = MaxFrames
    /\ reliable = FALSE
    /\ failure_atomic = TRUE
    /\ clock_end = 0
    /\ raw_world2cam \in [Views -> BOOLEAN]
    /\ kps3d_mask = [f \in 1..MaxFrames |-> [j \in Joints |-> TRUE]]
    /\ out_parent = TRUE
    /\ out_dir = FALSE
    /\ out_files = {}
    /\ now = 0
    /\ written = {}
    /\ frame_dir = FALSE
    /\ view_dirs = [v \in Views |-> NoDir]
    /\ InitRun
    /\ args.visualize
    /\ ~args.disable_log_file

SpecCams == InitCams /\ [][Next]_vars

\* runs with visualization over captures whose joints are reconstructed in
\* some frames and not in others, into a fresh output directory
InitMask ==
    /\ smc_path \in SmcPaths
    /\ smc_kind = "file"
    /\ num_kinects = MaxViews
    /\ n_frames = MaxFrames
    /\ reliable = FALSE
    /\ failure_atomic = TRUE
    /\ clock_end = 0
    /\ raw_world2cam = [v \in Views |-> FALSE]
    /\ kps3d_mask \in [1..MaxFrames -> [Joints -> BOOLEAN]]
    /\ out_parent = TRUE
    /\ out_dir = FALSE
    /\ out_files = {}
    /\ now = 0
    /\ written = {}
    /\ frame_dir = FALSE
    /\ view_dirs = [v \in Views |-> NoDir]
    /\ InitRun
    /\ args.visualize
    /\ ~args.disable_log_file

SpecMask == InitMask /\ [][Next]_vars

\* runs, again and again, of one command line on one capture into one output
\* directory, in an environment where calls may fail and in one where every
\* run succeeds; a later run reads the clock in the same second as the run
\* before it or in a later one
InitRerun ==
    /\ smc_path \in SmcPaths
    /\ smc_kind = "file"
    /\ num_kinects = MaxViews
    /\ n_frames = MaxFrames
    /\ reliable \in BOOLEAN
    /\ failure_atomic = TRUE
    /\ clock_end = MaxClock
    /\ InitGeometry
    /\ out_parent = TRUE
    /\ out_dir = FALSE
    /\ out_files = {}
    /\ now = 0
    /\ written = {}
    /\ frame_dir = FALSE
    /\ view_dirs = [v \in Views |-> NoDir]
    /\ InitRun

SpecRerun == InitRerun /\ [][Next]_vars

\* runs into a fresh output directory, without a log file, in an environment
\* where an external call can raise after part or all of its writes; the
\* behaviours that both remove the frames and visualize, the longest ones,
\* are taken with calls that raise before they write
InitFaults ==
    /\ smc_path \in SmcPaths
    /\ smc_kind = "file"
    /\ num_kinects = MaxViews
    /\ n_frames = MaxFrames
    /\ reliable = FALSE
    /\ failure_atomic \in BOOLEAN
    /\ clock_end = 0
    /\ InitGeometry
    /\ out_parent = TRUE
    /\ out_dir = FALSE
    /\ out_files = {}
    /\ now = 0
    /\ written = {}
    /\ frame_dir = FALSE
    /\ view_dirs = [v \in Views |-> NoDir]
    /\ InitRun
    /\ args.disable_log_file
    /\ failure_atomic = (args.frame_file = "temp" /\ args.visualize)

SpecFaults == InitFaults /\ [][Next]_vars

\* ------------------------------------------------ two runs side by side
\* what a run leaves: the files it wrote, what they hold, and the frame
\* directory
Outcome ==
    [out_files |-> out_files, written |-> written,
     keypoints2d_list |-> keypoints2d_list, keypoints3d |-> keypoints3d,
     smpl_data |-> smpl_data, frame_dir |-> frame_dir,
     view_dirs |-> view_dirs]

\* lines 239-241, a second time: the run without --visualize has completed;
\* its outcome is kept, and a process is started with --visualize and
\* otherwise the same command line, on the same capture and on the file
\* system the first run started from
RunVisualized ==
    /\ baseline.phase = "first"
    /\ pc = "done"
    /\ baseline' = [phase |-> "second", start |-> baseline.start,
                    result |-> Outcome]
    /\ args' = [args EXCEPT !.visualize = TRUE]
    /\ out_dir' = baseline.start.out_dir
    /\ out_files' = baseline.start.out_files
    /\ frame_dir' = baseline.start.frame_dir
    /\ view_dirs' = baseline.start.view_dirs
    /\ written' = {}
    /\ pc' = "check_output"
    /\ failed_at' = ""
    /\ dirs0' = view_dirs'
    /\ frame_dir0' = frame_dir'
    /\ made_out_dir' = FALSE
    /\ kinect_index' = 0
    /\ ret' = None
    /\ sv_img_array' = None
    /\ image_array' = None
    /\ mview_img_list' = <<>>
    /\ keypoints2d_list' = <<>>
    /\ keypoints3d' = NoKeypoints3d
    /\ smpl_data' = "unset"
    /\ index' = 0
    /\ view_idx' = 0
    /\ warnings' = {}
    /\ events' = <<>>
    /\ cam_param_list' = <<>>
    /\ cam_args' = <<>>
    /\ fit_calls' = <<>>
    /\ drawn' = {}
    /\ UNCHANGED <<env, now>>

\* the estimator, given the same capture and the same configuration, returns
\* in the second run of a comparison what it returned in the first
SameEstimates ==
    baseline.phase = "second" =>
        /\ \A i \in 1..Len(keypoints2d_list) :
              /\ i <= Len(baseline.result.keypoints2d_list)
              /\ keypoints2d_list[i] = baseline.result.keypoints2d_list[i]
        /\ smpl_data \in {"unset", baseline.result.smpl_data}

\* one run without --visualize, then one with it; the calls of the estimator
\* are those of Next, with the results of the first run in the second
NextVis ==
    \/ pc = "idle" /\ StartRun
    \/ CheckOutput
    \/ SetupLogger
    \/ CheckInput
    \/ ExternalFailure
    \/ LoadSmc
    \/ BuildEstimator
    \/ LoadCameras
    \/ PrepareFrames
    \/ ReadColor
    \/ ReuseViewDir
    \/ EstimateKeypoints2d /\ SameEstimates'
    \/ ArrayToImages
    \/ GlobView
    \/ RunEstimator /\ SameEstimates'
    \/ EstimateKeypoints3d
    \/ EstimateSmpl /\ SameEstimates'
    \/ DumpKeypoints2d
    \/ DumpKeypoints3d
    \/ DumpSmpl
    \/ Cleanup
    \/ GetProjector
    \/ VisualizeKp3d
    \/ VisualizeProjection
    \/ VisualizeSmpl
    \/ RunVisualized

\* a capture with at least one camera, any output location and any frame
\* strategy, first processed without --visualize
InitVis ==
    /\ smc_path \in SmcPaths
    /\ smc_kind = "file"
    /\ num_kinects \in 1..MaxViews
    /\ n_frames = MaxFrames
    /\ reliable = FALSE
    /\ failure_atomic = TRUE
    /\ clock_end = 0
    /\ InitGeometry
    /\ InitFs
    /\ InitProcess
    /\ ~args.visualize
    /\ baseline = [phase |-> "first",
                   start |-> [out_dir |-> out_dir, out_files |-> out_files,
                              frame_dir |-> frame_dir,
                              view_dirs |-> view_dirs],
                   result |-> <<>>]

SpecVis == InitVis /\ [][NextVis]_vars

\* ------------------------------------------------- reading the history
Running == pc \notin {"idle", "done", "failed"}

EvIdx(op) == {i \in 1..Len(events) : events[i].op = op}

\* the events up to the start of visualization
AcqEvents ==
    LET P == EvIdx("get_projector")
    IN  IF P = {} THEN events
        ELSE SubSeq(events, 1, (CHOOSE i \in P : \A j \in P : i <= j) - 1)

\* the view was read from the capture by the acquisition loop of this run
DecodedInAcquisition(v) ==
    \E i \in 1..Len(AcqEvents) : AcqEvents[i] = Ev("get_kinect_color", v)

\* array_to_images was called on the view's directory in this run and
\* returned: a call that raised is the last call of its run
Materialized(v) ==
    \E i \in 1..Len(events) :
        /\ events[i] = Ev("array_to_images", v)
        /\ ~(pc = "failed" /\ failed_at = "to_images" /\ i = Len(events))

\* the view's directory held a file when the run started
PopulatedAtStart(v) == dirs0[v].exists /\ dirs0[v].files # {}

\* the artifacts of lines 99-117 have all been written by this run
AllArtifactsWritten ==
    /\ \A i \in 1..Len(keypoints2d_list) :
          keypoints2d_list[i] # None =>
              Keypoints2dPath(SmcName(smc_path), i - 1) \in written
    /\ Keypoints3dPath(SmcName(smc_path)) \in written
    /\ SmplPath(SmcName(smc_path), SmplType(smpl_data)) \in written

\* -------------------------------------------------------------- claims

\* C1: under 'keep', a view whose directory is non-empty when the run starts
\* is not materialized: the acquisition loop does not read it from the
\* capture, its directory and files stay exactly as they were, and the path
\* list the estimator gets for it is the sorted '*.png' listing of what was
\* there; a 'keep' run that completes leaves every view directory non-empty,
\* so that the next 'keep' run materializes no view.
C1_KeepReusesPopulated ==
    (pc # "idle" /\ args.frame_file = "keep") =>
        /\ \A v \in Views :
              PopulatedAtStart(v) =>
                  /\ view_dirs[v] = dirs0[v]
                  /\ ~DecodedInAcquisition(v)
                  /\ ~Materialized(v)
                  /\ Len(mview_img_list) > v =>
                         mview_img_list[v + 1] = SviewImgList(v, dirs0[v])
        /\ pc = "done" =>
              \A v \in 0..(num_kinects - 1) : view_dirs[v].files # {}

C1_Witness ==
    /\ pc = "done"
    /\ args.frame_file = "keep"
    /\ num_kinects = 2
    /\ \A v \in 0..1 : 0 \in dirs0[v].files /\ view_dirs[v] = dirs0[v]
    /\ Len(mview_img_list) = 2
    /\ Len(mview_img_list[2]) = n_frames

\* C2: in every case other than ('keep' and the view's directory non-empty)
\* the acquisition loop reads the view's frames from the capture: every view
\* the loop has passed was decoded under 'none', under 'temp' (populated
\* directory or not) and under 'keep' with a missing or empty directory.
C2_OtherwiseDecoded ==
    \A v \in Views :
        (pc # "idle" /\ v < kinect_index
            /\ ~(args.frame_file = "keep" /\ PopulatedAtStart(v)))
        => DecodedInAcquisition(v)

C2_Witness ==
    /\ args.frame_file = "temp"
    /\ 0 \in dirs0[0].files
    /\ kinect_index >= 1
    /\ DecodedInAcquisition(0)
    /\ view_dirs[0].fresh = FrameNames(n_frames)

\* C3 as claimed: under 'temp' no view directory is left after a completed
\* run, and after a run that failed at any stage the materialized view
\* directories are still there.
C3_Original ==
    args.frame_file = "temp" =>
        /\ pc = "done" => (~frame_dir /\ \A v \in Views : ~view_dirs[v].exists)
        /\ pc = "failed" =>
              \A v \in Views : Materialized(v) => view_dirs[v].exists

\* C3 as amended: under 'temp' no view directory is left after a completed
\* run; after a run that failed before the removal of line 119 was reached
\* the materialized view directories are still there; a run that fails in
\* visualization fails after the removal and leaves none.
C3_TempCleanup ==
    args.frame_file = "temp" =>
        /\ pc = "done" => (~frame_dir /\ \A v \in Views : ~view_dirs[v].exists)
        /\ (pc = "failed" /\ failed_at \notin
                {"cleanup", "get_projector", "vis_kp3d", "vis_proj", "vis_smpl"})
              => (\A v \in Views :
                      Materialized(v) => frame_dir /\ view_dirs[v].exists)
        /\ (pc = "failed" /\ failed_at \in
                {"get_projector", "vis_kp3d", "vis_proj", "vis_smpl"})
              => (~frame_dir /\ \A v \in Views : ~view_dirs[v].exists)

C3_Witness ==
    /\ args.frame_file = "temp"
    /\ pc = "failed"
    /\ failed_at = "write3d"
    /\ num_kinects = 2
    /\ \A v \in 0..1 : Materialized(v) /\ view_dirs[v].files = FrameNames(n_frames)

\* C4: a step removes the frame directory, a view directory or a frame file
\* only under 'temp' and only when every keypoints2d artifact, the keypoints3d
\* artifact and the body-model artifact of the run have been written; a
\* 'keep' run that completes leaves the frame directory and the directory of
\* every view in place.
C4_Removes ==
    \/ frame_dir /\ ~frame_dir'
    \/ \E v \in Views :
          \/ view_dirs[v].exists /\ ~view_dirs'[v].exists
          \/ ~(view_dirs[v].files \subseteq view_dirs'[v].files)

C4_DeleteOnlyAfterWrite ==
    /\ [][C4_Removes => (args.frame_file = "temp" /\ AllArtifactsWritten)]_vars
    /\ []((pc = "done" /\ args.frame_file = "keep") =>
            (frame_dir /\ \A v \in 0..(num_kinects - 1) : view_dirs[v].exists))

C4_Witness ==
    /\ pc = "done"
    /\ args.frame_file = "temp"
    /\ ~frame_dir
    /\ Materialized(0)
    /\ AllArtifactsWritten
    /\ Keypoints2dPath(SmcName(smc_path), 0) \in written

\* the views whose decoded frames the run still refers to: a process that
\* has ended holds nothing
Held ==
    IF Running THEN {x \in {ret, sv_img_array, image_array} : x # None}
    ELSE {}

VisualizationStarted == EvIdx("get_projector") # {}

\* no step under 'none' makes, removes or changes the frame directory, a
\* view directory or a frame file
C5_NoFootprint ==
    args.frame_file = "none" =>
        /\ frame_dir' = frame_dir
        /\ \A v \in Views :
              /\ view_dirs'[v].exists = view_dirs[v].exists
              /\ view_dirs'[v].files = view_dirs[v].files
              /\ view_dirs'[v].fresh = {}

\* C5 as claimed: under 'none' nothing of the frame cache is created, and
\* the run never holds the decoded frames of more than one view.
C5_Original ==
    (Running /\ args.frame_file = "none") =>
        /\ frame_dir = frame_dir0
        /\ \A v \in Views : view_dirs[v] = dirs0[v]
        /\ Cardinality(Held) <= 1

\* C5 as amended: under 'none' nothing of the frame cache is created; each
\* view's frames go to the 2D estimator before the next view is read, but
\* they stay referenced by sv_img_array while the next view is decoded and
\* are released only when the new frames are bound, so that acquisition
\* holds the frames of up to two views (the one just read and the one
\* before it), and the frames of the last view stay referenced for the
\* rest of the run.
C5_InMemory ==
    /\ [][C5_NoFootprint]_vars
    /\ []((Running /\ args.frame_file = "none") =>
            /\ ret # None =>
                  /\ sv_img_array = (IF ret = 0 THEN None ELSE ret - 1)
                  /\ sv_img_array # None =>
                        \E i \in 1..Len(events) :
                            events[i] = Ev("estimate_keypoints2d", sv_img_array)
            /\ ~VisualizationStarted =>
                  /\ image_array = None
                  /\ Held \subseteq {kinect_index - 1, kinect_index}
                  /\ Cardinality(Held) <= 2
            /\ (pc \notin {"check_output", "setup_log", "check_input",
                          "load_smc", "build", "load_cam", "prep_frames"}
                /\ kinect_index = num_kinects /\ num_kinects > 0)
                  => sv_img_array = num_kinects - 1)

C5_Witness ==
    /\ args.frame_file = "none"
    /\ pc = "est2d"
    /\ ret = 1
    /\ sv_img_array = 0
    /\ Held = {0, 1}
    /\ keypoints2d_list # <<>>

\* the estimator calls of the run
EstimatorOps ==
    {"run", "estimate_keypoints2d", "estimate_keypoints3d", "estimate_smpl"}

\* the steps that bring a view's frames to the file system or list them
AcquisitionOps == {"get_kinect_color", "array_to_images", "glob"}

\* the views of the events with the given op, in the order of the events
RECURSIVE ViewsOf(_, _)
ViewsOf(es, op) ==
    IF es = <<>> THEN <<>>
    ELSE (IF Head(es).op = op THEN <<Head(es).view>> ELSE <<>>)
             \o ViewsOf(Tail(es), op)

\* C6: under 'temp' and 'keep' the estimator is called at most once, by
\* run(), and exactly once in a run that got past the call; at the call the
\* directory listing of every camera 0..num_kinects-1 had been taken, in
\* that order, one list per camera, each naming files of its own view in
\* ascending order; no materialization step follows the call and no other
\* estimator call is ever made.
C6_OneBatchCall ==
    (pc # "idle" /\ args.frame_file # "none") =>
        /\ Cardinality(EvIdx("run")) <= 1
        /\ \A i \in 1..Len(events) :
              events[i].op \in EstimatorOps => events[i].op = "run"
        /\ pc \in {"write2d", "write3d", "write_smpl", "cleanup",
                   "get_projector", "vis_kp3d", "vis_proj", "vis_smpl", "done"}
              => Cardinality(EvIdx("run")) = 1
        /\ \A r \in EvIdx("run") :
              /\ ViewsOf(SubSeq(events, 1, r - 1), "glob")
                     = [k \in 1..num_kinects |-> k - 1]
              /\ Len(mview_img_list) = num_kinects
              /\ \A k \in 1..num_kinects :
                    /\ \A j \in 1..Len(mview_img_list[k]) :
                          mview_img_list[k][j].view = k - 1
                    /\ \A j \in 1..(Len(mview_img_list[k]) - 1) :
                          mview_img_list[k][j].file < mview_img_list[k][j + 1].file
              /\ \A j \in (r + 1)..Len(AcqEvents) :
                    AcqEvents[j].op \notin AcquisitionOps

C6_Witness ==
    /\ pc = "done"
    /\ args.frame_file = "temp"
    /\ num_kinects = 2
    /\ Cardinality(EvIdx("run")) = 1
    /\ Len(mview_img_list) = 2
    /\ \A k \in 1..2 : Len(mview_img_list[k]) = n_frames

\* the calls of the in-memory acquisition loop, in order
IsLoopCall(e) == e.op \in {"get_kinect_color", "estimate_keypoints2d"}

\* how many calls the loop can have made when kinect_index views have been
\* read and estimated: one more when the next view has been read or its read
\* raised, two more when its estimator call raised
LoopCallCounts ==
    IF pc = "failed" /\ failed_at = "loop" THEN {2 * kinect_index + 1}
    ELSE IF pc = "failed" /\ failed_at = "est2d"
         THEN {2 * kinect_index + 1, 2 * kinect_index + 2}
    ELSE {2 * kinect_index + (IF ret # None THEN 1 ELSE 0)}

\* read view 0, estimate view 0, read view 1, estimate view 1, ...
Alternation(n) ==
    [i \in 1..n |->
        IF i % 2 = 1 THEN Ev("get_kinect_color", (i - 1) \div 2)
        ELSE Ev("estimate_keypoints2d", (i - 2) \div 2)]

\* C7: under 'none' the loop calls, in turn, get_kinect_color(v) and
\* estimate_keypoints2d on view v for v = 0, 1, ...: one estimator call per
\* view, right after the view is read and before the next view is read;
\* keypoints2d_list has one entry per view estimated, the entry at position
\* i being the Keypoints2D of camera i or None, and one entry per camera
\* once the loop has ended.
C7_OnePerView ==
    (pc \notin {"idle", "check_output", "setup_log", "check_input",
                "load_smc", "build", "load_cam", "prep_frames"}
        /\ args.frame_file = "none") =>
        /\ LET calls == SelectSeq(AcqEvents, IsLoopCall)
           IN  /\ calls = Alternation(Len(calls))
               /\ Len(calls) \in LoopCallCounts
        /\ Len(keypoints2d_list) = kinect_index
        /\ \A i \in 1..Len(keypoints2d_list) :
              keypoints2d_list[i] \in {None, i - 1}
        /\ pc \in {"estimate", "fit", "write2d", "write3d", "write_smpl",
                   "cleanup", "get_projector", "vis_kp3d", "vis_proj",
                   "vis_smpl", "done"}
              => Len(keypoints2d_list) = num_kinects

C7_Witness ==
    /\ pc = "done"
    /\ args.frame_file = "none"
    /\ num_kinects = 2
    /\ keypoints2d_list = <<None, 1>>

\* the writer has gone through lines 99-117
WriterDone ==
    \/ pc \in {"cleanup", "get_projector", "vis_kp3d", "vis_proj", "vis_smpl",
               "done"}
    \/ pc = "failed" /\ failed_at \in {"cleanup", "get_projector", "vis_kp3d",
                                       "vis_proj", "vis_smpl"}

CountEv(e) == Cardinality({i \in 1..Len(events) : events[i] = e})

C9_Id ==
    CASE smc_path = P_session07 -> "session07"
      [] smc_path = P_dotted -> "c.v1"
      [] smc_path = P_plain -> "raw"

C9_Keypoints2dNames ==
    {C9_Id \o "_keypoints2d_view0" \o Digits[v + 1] \o ".npz" : v \in Views}

\* what a run writes besides the artifacts: its log and its videos
C9_OtherNames ==
    {C9_Id \o "_keypoints3d.mp4", C9_Id \o "_smpl_overlay.mp4",
     C9_Id \o "_smplx_overlay.mp4"}
        \cup {C9_Id \o "_2022.01.01_00:00:0" \o Digits[t + 1] \o ".txt" :
                  t \in 0..MaxClock}
        \cup {C9_Id \o "_projected_0" \o Digits[v + 1] \o ".mp4" : v \in Views}

\* C9 as claimed: for capture session07 and an SMPL-X fit the files are
\* named exactly session07_keypoints3d and session07_smplx_data.
C9_Original ==
    (pc = "done" /\ smc_path = P_session07 /\ smpl_data = "SMPLXData") =>
        /\ "session07_keypoints3d" \in out_files
        /\ "session07_smplx_data" \in out_files

\* C9 as amended: with captureId the file name of the capture path less its
\* last extension, the artifacts are named captureId_keypoints2d_viewNN.npz
\* (NN the view index on two digits), captureId_keypoints3d.npz and
\* captureId_variant_data.npz with variant smpl or smplx as fitted; for
\* session07 and an SMPL-X fit the writer produces session07_keypoints3d.npz
\* and session07_smplx_data.npz, and no session07_smpl_data.npz.
C9_ArtifactNames ==
    /\ written \subseteq
           C9_Keypoints2dNames
               \cup {C9_Id \o "_keypoints3d.npz", C9_Id \o "_smpl_data.npz",
                     C9_Id \o "_smplx_data.npz"}
               \cup C9_OtherNames
    /\ WriterDone =>
          /\ \A v \in 0..(Len(keypoints2d_list) - 1) :
                keypoints2d_list[v + 1] # None
                    <=> (C9_Id \o "_keypoints2d_view0" \o Digits[v + 1] \o ".npz")
                            \in written
          /\ (C9_Id \o "_keypoints3d.npz") \in written
          /\ (C9_Id \o "_smplx_data.npz") \in written
                 <=> smpl_data = "SMPLXData"
          /\ (C9_Id \o "_smpl_data.npz") \in written
                 <=> smpl_data = "SMPLData"
    /\ (WriterDone /\ smc_path = P_session07 /\ smpl_data = "SMPLXData") =>
          /\ "session07_keypoints3d.npz" \in written
          /\ "session07_smplx_data.npz" \in written
          /\ "session07_smpl_data.npz" \notin written

C9_Witness ==
    /\ pc = "done"
    /\ smc_path = P_session07
    /\ smpl_data = "SMPLXData"
    /\ keypoints2d_list = <<0, 1>>
    /\ {"session07_keypoints2d_view00.npz", "session07_keypoints2d_view01.npz",
        "session07_keypoints3d.npz", "session07_smplx_data.npz"}
           \subseteq written

\* a run that ended on one of the path checks of lines 30-32 and 44-46
ConfigurationError ==
    pc = "failed" /\ failed_at \in {"check_output", "check_input"}

\* C10: a run that aborts on a configuration error has created no output
\* directory, no log file, no frame directory and no artifact, and has run
\* no pipeline stage.
C10_AbortBeforeOutput ==
    ConfigurationError =>
        /\ ~made_out_dir
        /\ written = {}
        /\ frame_dir = frame_dir0
        /\ \A v \in Views : view_dirs[v] = dirs0[v]
        /\ events = <<>>

\* the stages that work on the views of the capture
ViewStageOps ==
    {"prepare_output_path", "get_kinect_color", "array_to_images", "glob",
     "estimate_keypoints2d", "run", "estimate_keypoints3d", "estimate_smpl",
     "dump_keypoints2d", "warning", "dump_keypoints3d", "dump_smpl", "rmtree",
     "get_projector", "visualize_kp3d", "project", "visualize_kp2d",
     "visualize_smpl_calibration"}

\* C11: a run on a capture that reports zero cameras ends with an error when
\* the calibration is loaded: it never gets past that call, so that no
\* acquisition, 2D estimation, triangulation, fitting, batch estimator call
\* or artifact dump is ever made with an empty set of views.
C11_ZeroCamerasAbort ==
    (num_kinects = 0 /\ pc # "idle") =>
        /\ pc \in {"check_output", "setup_log", "check_input", "load_smc",
                   "build", "load_cam", "failed"}
        /\ pc = "failed" =>
              failed_at \in {"check_output", "setup_log", "check_input",
                             "load_smc", "build", "load_cam"}
        /\ \A i \in 1..Len(events) : events[i].op \notin ViewStageOps
        /\ keypoints2d_list = <<>> /\ mview_img_list = <<>>
        /\ written \subseteq {LogPath(SmcName(smc_path), TimeStr(now))}

C11_Witness ==
    /\ num_kinects = 0
    /\ pc = "failed"
    /\ failed_at = "load_cam"
    /\ events = <<Ev("SMCReader", None), Ev("build_estimator", None),
                  Ev("get_all_color_kinect_parameter", None)>>

\* the calls that triangulate or project with the CameraParameters
CameraUseOps == {"run", "estimate_keypoints3d", "project"}

\* C12: the calibration is loaded before any call that triangulates or
\* projects, and from the load to the end of the run every CameraParameter
\* of cam_param_list, and of every list handed to the estimator, is
\* camera-to-world: none carries the world-to-camera flag, and a camera holds
\* the inverse of the container's rotation and translation exactly when the
\* container's flag was world-to-camera.
C12_CameraToWorld ==
    /\ \A i \in 1..Len(events) :
          events[i].op \in CameraUseOps =>
              /\ \E j \in 1..(i - 1) :
                    events[j].op = "get_all_color_kinect_parameter"
              /\ Len(cam_param_list) = num_kinects
    /\ \A i \in 1..Len(cam_param_list) :
          /\ ~cam_param_list[i].world2cam
          /\ cam_param_list[i].inverted = raw_world2cam[i - 1]
    /\ \A k \in 1..Len(cam_args) :
          /\ Len(cam_args[k]) = num_kinects
          /\ \A i \in 1..Len(cam_args[k]) :
                /\ ~cam_args[k][i].world2cam
                /\ cam_args[k][i].inverted = raw_world2cam[i - 1]

C12_Witness ==
    /\ pc = "done"
    /\ ~raw_world2cam[0] /\ raw_world2cam[1]
    /\ \E i \in 1..Len(events) : events[i].op = "project"
    /\ cam_args # <<>>
    /\ ~cam_args[1][1].inverted /\ cam_args[1][2].inverted
    /\ cam_param_list[2].inverted /\ ~cam_param_list[2].world2cam

\* the calls of the visualization of lines 123-195 that no earlier statement
\* of main() makes
VisOps == {"get_projector", "visualize_kp3d", "project", "visualize_kp2d",
           "visualize_smpl_calibration"}

\* the calls that write an artifact or remove the frame directory
WriteOps == {"dump_keypoints2d", "dump_keypoints3d", "dump_smpl", "rmtree"}

\* the names of the videos the visualization writes
Videos ==
    {Kp3dVideoPath(SmcName(smc_path))}
    \cup {ProjectedVideoPath(SmcName(smc_path), v) : v \in Views}
    \cup {OverlayVideoPath(SmcName(smc_path), t) : t \in {"smpl", "smplx"}}

\* the run is past the visualize test of line 122 with --visualize
InVisualization ==
    \/ pc \in {"get_projector", "vis_kp3d", "vis_proj", "vis_smpl"}
    \/ pc = "done" /\ args.visualize
    \/ pc = "failed" /\ failed_at \in {"get_projector", "vis_kp3d",
                                        "vis_proj", "vis_smpl"}

\* C13: a call of the visualization is made, and a video written, only in a
\* run with --visualize; every dump and the removal of the frame directory
\* come before the first call of the visualization; and a run with
\* --visualize that has reached the visualization, on the capture,
\* configuration, frame strategy and file system of a completed run without
\* it, has written the same keypoints2d, keypoints3d and body-model files
\* holding the same results, and has the frame directory and every view
\* directory as that run left them, and keeps them so to its end.
C13_VisualizationOptional ==
    /\ \A i \in 1..Len(events) : events[i].op \in VisOps => args.visualize
    /\ written \cap Videos # {} => args.visualize
    /\ \A i, j \in 1..Len(events) :
          (events[i].op \in VisOps /\ events[j].op \in WriteOps) => j < i
    /\ (baseline.phase = "second" /\ InVisualization) =>
          /\ written \ Videos = baseline.result.written
          /\ out_files \ Videos = baseline.result.out_files
          /\ keypoints2d_list = baseline.result.keypoints2d_list
          /\ keypoints3d = baseline.result.keypoints3d
          /\ smpl_data = baseline.result.smpl_data
          /\ frame_dir = baseline.result.frame_dir
          /\ view_dirs = baseline.result.view_dirs

C13_Witness ==
    /\ baseline.phase = "second"
    /\ pc = "done"
    /\ args.visualize
    /\ args.frame_file = "keep"
    /\ Kp3dVideoPath(SmcName(smc_path)) \in written
    /\ Keypoints2dPath(SmcName(smc_path), 1) \in baseline.result.written
    /\ Keypoints3dPath(SmcName(smc_path)) \in baseline.result.written
    /\ view_dirs[1].files = FrameNames(n_frames)

\* C14: a joint drawn in frame f of the projection overlay of any view is a
\* joint the Keypoints3D mask marks valid in frame f: a joint invalid in a
\* frame is not drawn in that frame, whatever the mask says of it in the
\* other frames.
C14_InvalidNotDrawn ==
    \A d \in drawn : keypoints3d.mask[d[2]][d[3]]

\* C15: each CameraParameter is changed in place at most once, by the
\* inversion of its extrinsics when the calibration is loaded; from the call
\* of run() or estimate_keypoints3d that received cam_param_list to the end
\* of the run, visualization included, the list is what the estimator was
\* given: no rotation, translation or convention flag has changed.
C15_ReadOnlyAfterUse ==
    /\ \A i \in 1..Len(cam_param_list) : cam_param_list[i].mutations <= 1
    /\ Len(cam_args) <= 1
    /\ \A k \in 1..Len(cam_args) : cam_param_list = cam_args[k]

C15_Witness ==
    /\ pc = "done"
    /\ raw_world2cam[selected_kinect]
    /\ \E i \in 1..Len(events) : events[i].op = "visualize_smpl_calibration"
    /\ cam_param_list[selected_kinect + 1].mutations = 1
    /\ cam_args = <<cam_param_list>>

\* the calls that take a camera index: reading a camera's color frames from
\* the container and selecting a CameraParameter of cam_param_list
CameraIndexOps == {"get_kinect_color", "cam_param_list"}

\* C16: on a capture of at least one camera every camera index the run uses,
\* in acquisition, in the projection overlays and in the body-model overlay,
\* is one of 0 .. num_kinects - 1.
C16_CameraIndexInRange ==
    num_kinects >= 1 =>
        \A i \in 1..Len(events) :
            events[i].op \in CameraIndexOps =>
                events[i].view \in 0..(num_kinects - 1)

\* the stage a call made before visualization belongs to: 0 set-up,
\* 1 calibration, 2 acquisition and per-view 2D estimation, 3 triangulation
\* (run() holds 2D estimation, triangulation and fitting), 4 fitting,
\* 5 result writing, 6 removal of the frame cache
StageOf(op) ==
    CASE op \in {"SMCReader", "build_estimator"} -> 0
      [] op = "get_all_color_kinect_parameter" -> 1
      [] op \in {"prepare_output_path", "get_kinect_color", "array_to_images",
                 "glob", "estimate_keypoints2d"} -> 2
      [] op \in {"run", "estimate_keypoints3d"} -> 3
      [] op = "estimate_smpl" -> 4
      [] op \in {"dump_keypoints2d", "warning", "dump_keypoints3d",
                 "dump_smpl"} -> 5
      [] op = "rmtree" -> 6
      [] OTHER -> 7

VisualizationOps ==
    {"get_projector", "visualize_kp3d", "project", "get_kinect_color",
     "visualize_kp2d", "cam_param_list", "visualize_smpl_calibration"}

\* C17: the calls of a run that has ended were made stage after stage:
\* calibration, then for each view its acquisition and (in memory) its 2D
\* estimation, then triangulation, fitting, result writing; the calls of
\* visualization, projection among them, come after the last dump and only
\* under args.visualize. Under 'none' estimate_keypoints3d is called once
\* keypoints2d_list has an entry for every camera, estimate_smpl is called
\* once, on the Keypoints3D of that triangulation and with init_smpl_data
\* None, and nothing but the log is written before it has returned.
C17_StageOrder ==
    /\ ~Running =>
          LET ae == AcqEvents
              n == Len(ae)
              stage == [i \in 1..n |-> StageOf(ae[i].op)]
          IN  /\ \A i \in 1..n :
                    /\ stage[i] <= 6
                    /\ i > 1 => stage[i - 1] <= stage[i]
                    /\ ae[i].op = "estimate_keypoints2d" =>
                          i > 1 /\ ae[i - 1]
                                       = Ev("get_kinect_color", ae[i].view)
                    /\ (i > 1 /\ stage[i] >= 2 /\ stage[i - 1] < 2) =>
                          stage[i - 1] = 1
              /\ n >= 1 => stage[1] = 0
              /\ Len(events) > n =>
                    /\ args.visualize
                    /\ ae[n].op \in {"dump_smpl", "rmtree"}
                    /\ \A i \in (n + 1)..Len(events) :
                          events[i].op \in VisualizationOps
              /\ \A i \in EvIdx("estimate_keypoints3d") :
                    ViewsOf(SubSeq(ae, 1, i - 1), "estimate_keypoints2d")
                        = [k \in 1..num_kinects |-> k - 1]
              /\ Len(fit_calls) = Cardinality(EvIdx("estimate_smpl"))
    /\ (written \ {LogPath(SmcName(smc_path), TimeStr(now))}) # {} =>
          IF args.frame_file = "none" THEN fit_calls # <<>>
          ELSE cam_args # <<>>
    /\ args.frame_file = "none" =>
          /\ Len(fit_calls) <= 1
          /\ \A k \in 1..Len(fit_calls) :
                /\ Len(keypoints2d_list) = num_kinects
                /\ cam_args # <<>>
                /\ fit_calls[k].keypoints3d = Triangulate(keypoints2d_list)
                /\ fit_calls[k].keypoints3d = keypoints3d
                /\ fit_calls[k].init_smpl_data = None
    /\ args.frame_file # "none" => fit_calls = <<>>

C17_Witness ==
    /\ pc = "done"
    /\ args.frame_file = "none"
    /\ args.visualize
    /\ num_kinects = 2
    /\ keypoints3d.views = {0, 1}
    /\ fit_calls = <<[keypoints3d |-> keypoints3d, init_smpl_data |-> None]>>
    /\ \E i \in 1..Len(events) : events[i].op = "project"
    /\ AllArtifactsWritten

\* run() has been called in the current run: it is the one call of the
\* on-disk strategies that is given cam_param_list
RunCalled == args.frame_file # "none" /\ cam_args # <<>>

\* the path list is made of files of the view only, in ascending order
OwnAscending(list, v) ==
    /\ \A j \in 1..Len(list) : list[j].view = v /\ list[j].file # Junk
    /\ \A j \in 1..(Len(list) - 1) : list[j].file < list[j + 1].file

\* C18 as claimed: under 'temp' and 'keep' the path list run() gets for each
\* view of a capture with frames is non-empty and lists frame files of the
\* view in ascending order, also when extraction was skipped under 'keep'
\* for a directory found non-empty, whatever files it held.
C18_Original ==
    (RunCalled /\ n_frames >= 1) =>
        \A v \in 0..(num_kinects - 1) :
            /\ mview_img_list[v + 1] # <<>>
            /\ OwnAscending(mview_img_list[v + 1], v)

\* C18 as amended: the path list run() gets for a view lists only '*.png'
\* files of the view's directory, in ascending order; it holds the frames
\* just extracted when the view was materialized in this run, and the
\* '*.png' files found when extraction was skipped under 'keep'; it is
\* non-empty in the first case and, in the second, exactly when the
\* directory held a '*.png' file: a directory that is non-empty because of
\* other files only gives an empty list.
C18_PathLists ==
    (RunCalled /\ n_frames >= 1) =>
        /\ Len(mview_img_list) = num_kinects
        /\ \A v \in 0..(num_kinects - 1) :
            LET list == mview_img_list[v + 1]
            IN  /\ OwnAscending(list, v)
                /\ Materialized(v) =>
                      /\ list # <<>>
                      /\ FrameNames(n_frames)
                             \subseteq {list[j].file : j \in 1..Len(list)}
                /\ ~Materialized(v) =>
                      /\ args.frame_file = "keep" /\ PopulatedAtStart(v)
                      /\ {list[j].file : j \in 1..Len(list)}
                             = dirs0[v].files \ {Junk}
                      /\ list = <<>> <=> dirs0[v].files = {Junk}

C18_Witness ==
    /\ args.frame_file = "keep"
    /\ pc = "done"
    /\ RunCalled
    /\ num_kinects = 2
    /\ dirs0[0].files = {Junk}
    /\ ~Materialized(0) /\ mview_img_list[1] = <<>>
    /\ Materialized(1) /\ Len(mview_img_list[2]) = n_frames

\* the view has detections in the keypoints2d_list of the current run
Detected(v) == v < Len(keypoints2d_list) /\ keypoints2d_list[v + 1] # None

\* C19 as claimed: when every run so far has succeeded, the keypoints2d
\* artifacts in the output directory after a run are exactly those of the
\* views with detections in that run, each written by that run.
C19_Original ==
    (reliable /\ pc = "done") =>
        \A v \in Views :
            LET name == Keypoints2dPath(SmcName(smc_path), v)
            IN  /\ name \in out_files <=> Detected(v)
                /\ name \in out_files => name \in written

\* C19 as amended: after a run that succeeded, the keypoints2d artifact of
\* each view with detections in that run is present and was written by that
\* run, over an earlier artifact of the same name if there was one; for a
\* view absent in that run nothing is written, and no step of any run
\* removes a file of the output directory, so that the artifact an earlier
\* run left for such a view stays.
C19_Rerun ==
    /\ [](pc = "done" =>
            \A v \in Views :
                LET name == Keypoints2dPath(SmcName(smc_path), v)
                IN  /\ Detected(v) => name \in written /\ name \in out_files
                    /\ ~Detected(v) => name \notin written)
    /\ [][out_files \subseteq out_files' /\ written \subseteq out_files']_vars

C19_Witness ==
    /\ reliable
    /\ pc = "done"
    /\ keypoints2d_list = <<0, None>>
    /\ Keypoints2dPath(SmcName(smc_path), 0) \in written
    /\ Keypoints2dPath(SmcName(smc_path), 1) \in out_files \ written
====
